---- MODULE Spec2Model ----
(***************************************************************************)
(* A state-machine model of the RXP multi-pattern search engine adapter,   *)
(* src/search_engines/rxp.cc: the pattern escaper, the per-instance        *)
(* pattern registry (RxpMpse::add_pattern, prep_patterns), the process-    *)
(* wide counters, the job protocol of RxpMpse::rxp_search, the start-up    *)
(* sequence rxp_setup, and the destruction of instances (rxp_dtor).        *)
(*                                                                         *)
(* Pointers: a pointer is a sequence of length at most one, <<>> being     *)
(* nullptr and <<v>> a pointer to v.  An RxpPattern* held in ruleidtbl is  *)
(* the index of the Pattern in the instance's pats vector (Patterns are    *)
(* never removed from it), 0 being nullptr.  The opaque handles (user,     *)
(* user_tree, user_list, pv) are integers, NULL being nullptr.             *)
(*                                                                         *)
(* A dereference of a null std::string* or RxpPattern* loads from page     *)
(* zero; the process is terminated by the fault before the operation can   *)
(* write or return anything: proc becomes "crashed" and no operation runs  *)
(* afterwards.                                                             *)
(***************************************************************************)
EXTENDS Integers, Sequences, FiniteSets, TLC

VARIABLES
    instances,        \* static vector<RxpMpse*> RxpMpse::instances (the objects themselves)
    duplicates,       \* static uint64_t RxpMpse::duplicates
    jobs_submitted,   \* static uint64_t RxpMpse::jobs_submitted
    match_limit,      \* static uint64_t RxpMpse::match_limit
    patterns,         \* static uint64_t RxpMpse::patterns
    max_pattern_len,  \* static uint64_t RxpMpse::max_pattern_len
    proc,             \* "running", "crashed" (fault) or "exited" (exit(-1))
    session,          \* the device session's state
    search,           \* the rxp_search call in progress, if any
    dev,              \* the device: jobs dispatched to it, responses it has queued
    last,             \* the operation that ran last, its inputs and what it gave back
    hist              \* history: the largest rule and job identifiers issued so far,
                      \* and the instances prep_patterns has run on

vars == <<instances, duplicates, jobs_submitted, match_limit, patterns,
          max_pattern_len, proc, session, search, dev, last, hist>>

----------------------------------------------------------------------------
(* Bounds of the model. *)

MaxInstances == 2     \* Engine Instances constructed
MaxAdds == 3          \* add_pattern calls that return, over all instances
MaxPatLen == 1        \* bytes of a pattern handed to add_pattern
MaxUser == 1          \* distinct non-null user handles
MaxSearchAdds == 2    \* the same, in the specification of the search path
MaxRuleId == 2        \* largest rule identifier in a device response
MaxJobs == 2          \* value of jobs_submitted at which no further search is started
MaxSearchJobs == 1    \* the same, in the specification of the search path
MaxMatches == 2       \* match entries in one device response
MaxN == 2             \* largest buffer length handed to a search
MaxStop == 1          \* latest callback invocation that may return non-zero
MaxEscLen == 3        \* bytes of a pattern handed to rxp_escape_pattern on its own

(* Stand-in for the device library's RXP_MAX_JOB_LENGTH (rxp.h), scaled. *)
RXP_MAX_JOB_LENGTH == 1

NULL == 0

(* The widths of the integer types involved. *)
UINT16 == 65536

(* Pattern bytes the host hands in: 'A' (alphanumeric) and '.' (escaped). *)
Bytes == {65, 46}

RECURSIVE SeqsUpTo(_, _)
SeqsUpTo(S, n) ==
    IF n = 0 THEN {<<>>}
    ELSE LET shorter == SeqsUpTo(S, n - 1)
         IN  shorter \cup {Append(s, x) : s \in {t \in shorter : Len(t) = n - 1}, x \in S}

PatInputs == SeqsUpTo(Bytes, MaxPatLen)
Users == 0..MaxUser
PVs == {1}
BufLens == 1..MaxN
Descs == {[no_case |-> FALSE, negated |-> FALSE], [no_case |-> TRUE, negated |-> TRUE]}

Min(a, b) == IF a < b THEN a ELSE b
Max(a, b) == IF a > b THEN a ELSE b

----------------------------------------------------------------------------
(* rxp_escape_pattern *)

isalnum(c) == (c >= 48 /\ c <= 57) \/ (c >= 65 /\ c <= 90) \/ (c >= 97 /\ c <= 122)

(* One digit of sprintf's %02x. *)
HexChar(d) == IF d < 10 THEN 48 + d ELSE 87 + d

(* Mutant of EscapeByte: the format is \x%x, without the zero padding. *)
EscapeByteUnpadded(c) ==
    IF ~isalnum(c)
    THEN IF c < 16 THEN <<92, 120, HexChar(c)>>
         ELSE <<92, 120, HexChar(c \div 16), HexChar(c % 16)>>
    ELSE <<c>>

(* The characters appended for one byte: the byte itself, or \xHH. *)
EscapeByte(c) ==
    IF ~isalnum(c)
    THEN <<92, 120, HexChar(c \div 16), HexChar(c % 16)>>
    ELSE <<c>>

RECURSIVE EscapeFrom(_, _)
EscapeFrom(pat, i) ==
    IF i > Len(pat) THEN <<>> ELSE EscapeByte(pat[i]) \o EscapeFrom(pat, i + 1)

(* The string* returned: nullptr for len = 0, else a pointer to the text. *)
rxp_escape_pattern(pat) ==
    IF Len(pat) = 0 THEN <<>> ELSE <<EscapeFrom(pat, 1)>>

----------------------------------------------------------------------------
(* UserCtx, RxpPattern *)

UserCtx(u) == [user |-> u, user_tree |-> NULL, user_list |-> NULL]

RxpPattern(pattern, d, u) ==
    [pat |-> pattern, ruleid |-> 0, no_case |-> d.no_case, negate |-> d.negated,
     userctx |-> <<UserCtx(u)>>]

(* The value a uint16_t holds once a uint64_t is assigned to it. *)
ToUint16(v) == v % UINT16

----------------------------------------------------------------------------
Init ==
    /\ instances = <<>>
    /\ duplicates = 0
    /\ jobs_submitted = 0
    /\ match_limit = 0
    /\ patterns = 0
    /\ max_pattern_len = 0
    /\ proc = "running"
    /\ session = "Uninitialized"
    /\ search = [pc |-> "idle"]
    /\ dev = [jobs |-> <<>>, resp |-> <<>>]
    /\ last = [op |-> "none"]
    /\ hist = [ruleMax |-> 0, jobMax |-> 0, prepped |-> {}]

(* The host calls into the engine from one thread, and only while the      *)
(* process lives and no search call is in progress.                        *)
Idle == proc = "running" /\ search.pc = "idle"

----------------------------------------------------------------------------
(* rxp_ctor / RxpMpse::RxpMpse *)

(* ruleidtbl is a function from the keys inserted so far to Pattern        *)
(* indices.  live tells a constructed object from the storage a destroyed  *)
(* one has left behind.                                                    *)
RxpMpseNew(id) == [instance_id |-> id, pats |-> <<>>, ruleidtbl |-> <<>>, live |-> TRUE]

(* The entries of the instance list whose object has not been destroyed. *)
Live == {i \in 1..Len(instances) : instances[i].live}

rxp_ctor ==
    /\ Idle
    /\ Len(instances) < MaxInstances
    /\ instances' = Append(instances, RxpMpseNew(Len(instances) + 1))
    /\ last' = [op |-> "rxp_ctor"]
    /\ UNCHANGED <<duplicates, jobs_submitted, match_limit, patterns,
                   max_pattern_len, proc, session, search, dev, hist>>

----------------------------------------------------------------------------
(* RxpMpse::add_pattern *)

(* The for loop over pats: the first index at which the loop stops, either *)
(* because *p->pat == *pattern holds or because evaluating it dereferences *)
(* a null string*; 0 when the loop runs to the end.                        *)
ScanFaults(pats, pattern, k) == pattern = <<>> \/ pats[k].pat = <<>>

(* Mutant of ScanMatches: the string pointers are compared, and a string   *)
(* that rxp_escape_pattern has just allocated is no other one.             *)
ScanMatchesPointers(pats, pattern, k) ==
    ~ScanFaults(pats, pattern, k) /\ FALSE

(* *p->pat == *pattern *)
ScanMatches(pats, pattern, k) ==
    ~ScanFaults(pats, pattern, k) /\ pats[k].pat[1] = pattern[1]

ScanStop(pats, pattern) ==
    LET stops == {k \in 1..Len(pats) :
                     ScanFaults(pats, pattern, k) \/ ScanMatches(pats, pattern, k)}
    IN  IF stops = {} THEN 0 ELSE CHOOSE k \in stops : \A j \in stops : k <= j

(* map<int, RxpPattern*>::operator[] used as an lvalue. *)
MapPut(tbl, key, val) ==
    [k \in DOMAIN tbl \cup {key} |-> IF k = key THEN val ELSE tbl[k]]

(* Mutant of PushCtx: the context goes to the front. *)
PushCtxFront(userctx, user) == <<UserCtx(user)>> \o userctx

(* rxp_pat->userctx.push_back(UserCtx(user)) *)
PushCtx(userctx, user) == Append(userctx, UserCtx(user))

(* The duplicate branch: the instance once the context is recorded. *)
AddDuplicate(I, k, user) ==
    [I EXCEPT !.pats[k].userctx = PushCtx(@, user)]

(* rxp_pat->ruleid = ++patterns, ruleid being a uint16_t. *)
NewRuleId(counter) == ToUint16(counter + 1)

(* The new-pattern branch: the instance once the Pattern is registered. *)
AddNew(I, pattern, d, user, ruleid) ==
    LET p == [RxpPattern(pattern, d, user) EXCEPT !.ruleid = ruleid]
    IN  [I EXCEPT !.pats = Append(@, p),
                  !.ruleidtbl = MapPut(@, ruleid, Len(I.pats) + 1)]

(* The add_pattern calls that have returned so far: one RuleContext each. *)
RECURSIVE SumFrom(_, _)
SumFrom(ns, n) == IF n > Len(ns) THEN 0 ELSE ns[n] + SumFrom(ns, n + 1)

CtxCount(I) == SumFrom([k \in 1..Len(I.pats) |-> Len(I.pats[k].userctx)], 1)

TotalCtx == SumFrom([i \in 1..Len(instances) |-> CtxCount(instances[i])], 1)

(* The value add_pattern returns. *)
AddPatternRet(pattern) == 0

add_pattern(i, pat, d, user) ==
    LET I == instances[i]
        pattern == rxp_escape_pattern(pat)
        k == ScanStop(I.pats, pattern)
        call == [op |-> "add_pattern", desc |-> d]
    IN
    /\ Idle
    /\ IF k > 0 /\ ScanFaults(I.pats, pattern, k)
       THEN \* null dereference inside the scan
            /\ proc' = "crashed"
            /\ last' = call @@ [returned |-> FALSE, ret |-> 0]
            /\ UNCHANGED <<instances, duplicates, patterns, max_pattern_len, hist>>
       ELSE IF k > 0
       THEN \* a duplicate pattern
            /\ instances' = [instances EXCEPT ![i] = AddDuplicate(I, k, user)]
            /\ duplicates' = duplicates + 1
            /\ last' = call @@ [returned |-> TRUE, ret |-> AddPatternRet(pattern)]
            /\ UNCHANGED <<patterns, max_pattern_len, hist, proc>>
       ELSE \* a new pattern
            /\ instances' = [instances EXCEPT
                                ![i] = AddNew(I, pattern, d, user, NewRuleId(patterns))]
            /\ patterns' = patterns + 1
            /\ max_pattern_len' = Max(max_pattern_len, Len(pat))
            /\ hist' = [hist EXCEPT !.ruleMax = Max(@, NewRuleId(patterns))]
            /\ last' = call @@ [returned |-> TRUE, ret |-> AddPatternRet(pattern)]
            /\ UNCHANGED <<duplicates, proc>>
    /\ UNCHANGED <<jobs_submitted, match_limit, session, search, dev>>

(* RxpMpse::get_pattern_count *)
get_pattern_count(I) == Len(I.pats)

----------------------------------------------------------------------------
(* rxp_init *)

rxp_init ==
    /\ Idle
    /\ jobs_submitted' = 0
    /\ match_limit' = 0
    /\ patterns' = 0
    /\ max_pattern_len' = 0
    /\ last' = [op |-> "rxp_init"]
    /\ UNCHANGED <<instances, duplicates, proc, session, search, dev, hist>>

----------------------------------------------------------------------------
(* The host agent (MpseAgent), called through agent->negate_list and       *)
(* agent->build_tree: what the call leaves in the slot it is handed.       *)

DEFAULT_TREE == -1

(* negate_list(key, &slot) *)
AgentNegateList(key, slot) == IF slot # NULL THEN slot ELSE key

(* build_tree(sc, key, &slot): a tree for the key, or, keyed by null, the  *)
(* handle-independent default tree when the slot holds none yet.           *)
AgentBuildTree(key, slot) ==
    IF slot # NULL THEN slot ELSE IF key # NULL THEN key ELSE DEFAULT_TREE

----------------------------------------------------------------------------
(* RxpMpse::prep_patterns / RxpMpse::user_ctor *)

(* Mutant of CtxHooks: the default tree is built only for a null handle. *)
CtxHooksElse(p, c) ==
    IF c.user # NULL
    THEN IF p.negate
         THEN <<[fn |-> "negate_list", key |-> c.user]>>
         ELSE <<[fn |-> "build_tree", key |-> c.user]>>
    ELSE <<[fn |-> "build_tree", key |-> NULL]>>

(* The agent calls user_ctor makes for one UserCtx c of a Pattern p, in order. *)
CtxHooks(p, c) ==
    (IF c.user # NULL
     THEN IF p.negate
          THEN <<[fn |-> "negate_list", key |-> c.user]>>
          ELSE <<[fn |-> "build_tree", key |-> c.user]>>
     ELSE <<>>)
    \o <<[fn |-> "build_tree", key |-> NULL]>>

RECURSIVE ApplyHooks(_, _, _)
ApplyHooks(c, hooks, n) ==
    IF n > Len(hooks) THEN c
    ELSE LET h == hooks[n]
             c2 == IF h.fn = "negate_list"
                   THEN [c EXCEPT !.user_list = AgentNegateList(h.key, @)]
                   ELSE [c EXCEPT !.user_tree = AgentBuildTree(h.key, @)]
         IN  ApplyHooks(c2, hooks, n + 1)

(* The UserCtx once user_ctor has passed over it. *)
CtorCtx(p, c) == ApplyHooks(c, CtxHooks(p, c), 1)

(* The Pattern once user_ctor has passed over its contexts. *)
CtorPattern(p) ==
    [p EXCEPT !.userctx = [j \in 1..Len(p.userctx) |-> CtorCtx(p, p.userctx[j])]]

RECURSIVE FlatFrom(_, _)
FlatFrom(ss, n) == IF n > Len(ss) THEN <<>> ELSE ss[n] \o FlatFrom(ss, n + 1)

(* The agent calls of one user_ctor run, each tagged with the Pattern and  *)
(* the UserCtx whose slot it was handed.                                   *)
PatternHooks(pats, k) ==
    FlatFrom([j \in 1..Len(pats[k].userctx) |->
                 [n \in 1..Len(CtxHooks(pats[k], pats[k].userctx[j])) |->
                     CtxHooks(pats[k], pats[k].userctx[j])[n] @@ [p |-> k, c |-> j]]], 1)

UserCtorHooks(pats) == FlatFrom([k \in 1..Len(pats) |-> PatternHooks(pats, k)], 1)

user_ctor(I) == [I EXCEPT !.pats = [k \in 1..Len(I.pats) |-> CtorPattern(I.pats[k])]]

prep_patterns(i) ==
    /\ Idle
    /\ instances' = [instances EXCEPT ![i] = user_ctor(instances[i])]
    /\ last' = [op |-> "prep_patterns", returned |-> TRUE, ret |-> 0,
                hooks |-> UserCtorHooks(instances[i].pats)]
    /\ hist' = [hist EXCEPT !.prepped = @ \cup {i}]
    /\ UNCHANGED <<duplicates, jobs_submitted, match_limit, patterns,
                   max_pattern_len, proc, session, search, dev>>

----------------------------------------------------------------------------
(* rxp_dtor / RxpMpse::~RxpMpse / RxpMpse::user_dtor *)

(* The agent calls user_dtor makes for one UserCtx, in order. *)
CtxFrees(c) ==
    (IF c.user # NULL THEN <<[fn |-> "user_free", arg |-> c.user]>> ELSE <<>>)
    \o (IF c.user_list # NULL THEN <<[fn |-> "list_free", arg |-> c.user_list]>> ELSE <<>>)
    \o (IF c.user_tree # NULL THEN <<[fn |-> "tree_free", arg |-> c.user_tree]>> ELSE <<>>)

(* The agent calls of one user_dtor run, each tagged with the Pattern and  *)
(* the UserCtx it was made for.                                            *)
PatternFrees(pats, k) ==
    FlatFrom([j \in 1..Len(pats[k].userctx) |->
                 [n \in 1..Len(CtxFrees(pats[k].userctx[j])) |->
                     CtxFrees(pats[k].userctx[j])[n] @@ [p |-> k, c |-> j]]], 1)

user_dtor(pats) == FlatFrom([k \in 1..Len(pats) |-> PatternFrees(pats, k)], 1)

(* The RxpPattern objects ~RxpMpse deletes: pats holds raw pointers and    *)
(* the destructor only runs user_dtor, so none.                            *)
PatternsDeleted(I) == {}

(* delete p: the object is destroyed; its entry stays in the instance list. *)
rxp_dtor(i) ==
    /\ Idle
    /\ instances[i].live
    /\ instances' = [instances EXCEPT ![i].live = FALSE]
    /\ hist' = [hist EXCEPT !.prepped = @ \ {i}]
    /\ last' = [op |-> "rxp_dtor", frees |-> user_dtor(instances[i].pats),
                deleted |-> PatternsDeleted(instances[i])]
    /\ UNCHANGED <<duplicates, jobs_submitted, match_limit, patterns,
                   max_pattern_len, proc, session, search, dev>>

----------------------------------------------------------------------------
(* RxpMpse::rxp_search (through RxpMpse::_search), in three parts: the     *)
(* call up to rxp_dispatch_jobs, the device's answer, and the call from    *)
(* the moment rxp_get_responses hands back a response.                     *)

(* Mutant of JobLength: the length is not clamped. *)
JobLengthUnclamped(n) == n

(* The job length, and the truncation warnings logged for it. *)
JobLength(n) == IF n > RXP_MAX_JOB_LENGTH THEN RXP_MAX_JOB_LENGTH ELSE n

TruncationWarnings(n) == IF n > RXP_MAX_JOB_LENGTH THEN 1 ELSE 0

(* ++jobs_submitted, handed to rxp_prepare_job as the job identifier. *)
NewJobId(counter) == counter + 1

(* rxp_prepare_job's arguments: the job identifier, the clamped length and *)
(* instance_id as the subset selector.                                     *)
PrepareJob(I, n, counter) ==
    [job_id |-> NewJobId(counter), length |-> JobLength(n), subset |-> I.instance_id]

SearchSubmit(i, n, pv) ==
    LET job == PrepareJob(instances[i], n, jobs_submitted)
    IN
    /\ Idle
    /\ jobs_submitted' = jobs_submitted + 1
    /\ dev' = [dev EXCEPT !.jobs = Append(@, job)]
    /\ hist' = [hist EXCEPT !.jobMax = Max(@, job.job_id)]
    /\ search' = [pc |-> "polling", inst |-> i, pv |-> pv, job |-> job,
                  warnings |-> TruncationWarnings(n)]
    /\ last' = [op |-> "rxp_search:submit"]
    /\ UNCHANGED <<instances, duplicates, match_limit, patterns, max_pattern_len,
                   proc, session>>

(* What the device may answer (and rxp_get_response_data decode): any     *)
(* match count up to MaxMatches, any detected count, any rule identifiers. *)
Spans == {[start_ptr |-> 0, length |-> 1], [start_ptr |-> 1, length |-> 2]}
RuleIdInputs == 1..MaxRuleId
MatchEntries == {[rule_id |-> r, start_ptr |-> sp.start_ptr, length |-> sp.length] :
                    r \in RuleIdInputs, sp \in Spans}
Responses ==
    {[match_count |-> Len(md), detected_match_count |-> dc, match_data |-> md] :
        md \in SeqsUpTo(MatchEntries, MaxMatches), dc \in 0..MaxMatches}

(* The device completes the oldest job and queues its response. *)
DeviceRespond(r) ==
    /\ proc = "running"
    /\ dev.jobs # <<>>
    /\ dev' = [jobs |-> Tail(dev.jobs),
               resp |-> Append(dev.resp, r @@ [job_id |-> Head(dev.jobs).job_id])]
    /\ UNCHANGED <<instances, duplicates, jobs_submitted, match_limit, patterns,
                   max_pattern_len, proc, session, search, last, hist>>

(* The match_limit counter after the response is examined. *)
MatchLimitAfter(counter, r) ==
    IF r.match_count # 0 /\ r.detected_match_count > r.match_count
    THEN counter + 1
    ELSE counter

(* The mf calls for one match entry: one per UserCtx of the Pattern. *)
PatternCalls(p, to, pv) ==
    [j \in 1..Len(p.userctx) |->
        [user |-> p.userctx[j].user, tree |-> p.userctx[j].user_tree, to |-> to,
         pv |-> pv, list |-> p.userctx[j].user_list]]

(* The end offset handed to mf. *)
EndOffset(e) == e.start_ptr + e.length

(* ruleidtbl[rule_id]: operator[] inserts a null entry for a missing key. *)
MapGet(tbl, key) == IF key \in DOMAIN tbl THEN tbl ELSE MapPut(tbl, key, 0)

(* The match loop from entry n on: the table, the calls made, and whether  *)
(* the loop faulted on a null RxpPattern*.                                 *)
RECURSIVE DispatchFrom(_, _, _, _, _, _)
DispatchFrom(tbl, pats, r, pv, n, calls) ==
    IF n > r.match_count
    THEN [tbl |-> tbl, calls |-> calls, fault |-> FALSE]
    ELSE LET e == r.match_data[n]
             tbl2 == MapGet(tbl, e.rule_id)
             pat == tbl2[e.rule_id]
         IN  IF pat = 0
             THEN [tbl |-> tbl2, calls |-> calls, fault |-> TRUE]
             ELSE DispatchFrom(tbl2, pats, r, pv, n + 1,
                               calls \o PatternCalls(pats[pat], EndOffset(e), pv))

(* Mutant of CallsMade: a non-zero return ends the dispatch. *)
CallsMadeStopping(calls, stop) ==
    IF stop > 0 /\ stop < Len(calls) THEN SubSeq(calls, 1, stop) ELSE calls

(* The calls made when the callback returns non-zero at its stop-th call   *)
(* (never, for stop = 0): the value mf returns is not looked at.           *)
CallsMade(calls, stop) == calls

Dispatch(I, r, pv, stop) ==
    LET d == DispatchFrom(I.ruleidtbl, I.pats, r, pv, 1, <<>>)
    IN  [d EXCEPT !.calls = CallsMade(@, stop)]

(* The diagnostics rxp_search logs for a rule identifier it cannot resolve. *)
UnresolvedDiagnostics(d) == 0

SearchComplete(stop) ==
    LET i == search.inst
        r == Head(dev.resp)     \* pkts_burst[0], decoded into rxp_resp
        d == Dispatch(instances[i], r, search.pv, stop)
    IN
    /\ proc = "running"
    /\ search.pc = "polling"
    /\ dev.resp # <<>>
    /\ match_limit' = MatchLimitAfter(match_limit, r)
    /\ instances' = [instances EXCEPT ![i].ruleidtbl = d.tbl]
    /\ IF d.fault
       THEN \* null dereference in the match loop
            /\ proc' = "crashed"
            /\ last' = [op |-> "rxp_search", returned |-> FALSE, ret |-> 0,
                        calls |-> d.calls, warnings |-> search.warnings,
                        diagnostics |-> UnresolvedDiagnostics(d)]
            /\ UNCHANGED <<search, dev>>
       ELSE /\ dev' = [dev EXCEPT !.resp = Tail(@)]     \* rxp_free_buffer
            /\ search' = [pc |-> "idle"]
            /\ last' = [op |-> "rxp_search", returned |-> TRUE, ret |-> 0,
                        calls |-> d.calls, warnings |-> search.warnings,
                        diagnostics |-> UnresolvedDiagnostics(d)]
            /\ UNCHANGED proc
    /\ UNCHANGED <<duplicates, jobs_submitted, patterns, max_pattern_len, session, hist>>

----------------------------------------------------------------------------
(* RxpMpse::write_rule_file *)

RuleLine(p) == [kind |-> "rule", ruleid |-> p.ruleid, text |-> p.pat[1]]

(* The stanza of instances[subset - 1]: headed by the position in the      *)
(* instance list, one line per Pattern.                                    *)
Stanza(insts, subset) ==
    <<[kind |-> "subset_id", id |-> subset]>>
    \o [k \in 1..Len(insts[subset].pats) |-> RuleLine(insts[subset].pats[k])]

RuleFile(insts) ==
    <<[kind |-> "header"]>> \o FlatFrom([n \in 1..Len(insts) |-> Stanza(insts, n)], 1)

(* Streaming a Pattern's text dereferences its string pointer pat. *)
WriteFaults(insts) ==
    \E n \in 1..Len(insts) : \E k \in 1..Len(insts[n].pats) : insts[n].pats[k].pat = <<>>

(* An entry of the instance list points to a destroyed object: reading its *)
(* pats is a read of freed storage, which either faults or finds what the  *)
(* object left there.                                                      *)
WriteDangles(insts) == \E n \in 1..Len(insts) : ~insts[n].live

----------------------------------------------------------------------------
(* rxp_setup, with RxpMpse::build_rule_file, dpdk_init, program_rule_file. *)
(* rc holds what the external steps return: the compiler's exit status,    *)
(* rte_eal_init, rxp_port_init, rxp_init(portid), the rule programming     *)
(* and rxp_enable.                                                         *)

SetupRcs == [build : {0, 1}, eal : {0, -1}, port : {0, 1}, init : {0, 1},
             program : {0, 1}, enable : {0, 1}]

Step(call, rc) == [call |-> call, rc |-> rc]

(* dpdk_init: each failure logs and calls exit(-1). *)
DpdkInitExits(rc) == rc.eal < 0 \/ rc.port # 0 \/ rc.init # 0

DpdkInitSteps(rc) ==
    <<Step("rte_eal_init", rc.eal)>>
    \o (IF rc.eal < 0 THEN <<>>
        ELSE <<Step("rxp_port_init", rc.port)>>
             \o (IF rc.port # 0 THEN <<>> ELSE <<Step("rxp_init", rc.init)>>))

(* The external steps one rxp_setup run performs, in order. *)
SetupSteps(rc) ==
    <<Step("write_rule_file", 0), Step("build_rule_file", rc.build)>>
    \o DpdkInitSteps(rc)
    \o (IF DpdkInitExits(rc) THEN <<>>
        ELSE <<Step("program_rule_file", rc.program), Step("rxp_enable", rc.enable)>>)

(* The device session once the steps have run. *)
SessionAfter(s, rc) ==
    IF DpdkInitExits(rc) THEN s
    ELSE IF rc.enable = 0 THEN "Enabled"
    ELSE IF rc.program = 0 THEN "RulesProgrammed"
    ELSE "Initialized"

rxp_setup(rc) ==
    /\ Idle
    /\ \/ \* a fault while the rule file is written
          /\ WriteFaults(instances) \/ WriteDangles(instances)
          /\ proc' = "crashed"
          /\ last' = [op |-> "rxp_setup", returned |-> FALSE, steps |-> <<>>]
          /\ UNCHANGED session
       \/ /\ ~WriteFaults(instances)
          /\ proc' = IF DpdkInitExits(rc) THEN "exited" ELSE proc
          /\ session' = SessionAfter(session, rc)
          /\ last' = [op |-> "rxp_setup", returned |-> ~DpdkInitExits(rc),
                      steps |-> SetupSteps(rc), file |-> RuleFile(instances)]
    /\ UNCHANGED <<instances, duplicates, jobs_submitted, match_limit, patterns,
                   max_pattern_len, search, dev, hist>>

----------------------------------------------------------------------------
(* add_pattern's new-pattern branch reduced to the identifiers it issues:  *)
(* the counter, the ruleid stored in the new Pattern and the largest       *)
(* ruleid stored so far.  The Patterns themselves (65536 of them before    *)
(* the uint16_t ruleid comes round) are left out.                          *)
AddPatternIds ==
    /\ Idle
    /\ patterns <= UINT16
    /\ patterns' = patterns + 1
    /\ hist' = [hist EXCEPT !.ruleMax = Max(@, NewRuleId(patterns))]
    /\ last' = [op |-> "add_pattern:new", ruleid |-> NewRuleId(patterns)]
    /\ UNCHANGED <<instances, duplicates, jobs_submitted, match_limit,
                   max_pattern_len, proc, session, search, dev>>

----------------------------------------------------------------------------
(* Actions over input sets, and the specifications. *)

AddStep(P, D, limit) ==
    /\ TotalCtx < limit
    /\ \E i \in Live, pat \in P, d \in D, user \in Users :
          add_pattern(i, pat, d, user)

PrepStep == \E i \in Live : prep_patterns(i)

DtorStep == \E i \in Live : rxp_dtor(i)

SubmitStep(limit) ==
    /\ jobs_submitted < limit
    /\ \E i \in Live, n \in BufLens, pv \in PVs : SearchSubmit(i, n, pv)

RespondStep == \E r \in Responses : DeviceRespond(r)

CompleteStep == \E stop \in 0..MaxStop : SearchComplete(stop)

(* The registry: construction, add_pattern over every input, finalize. *)
Next ==
    \/ rxp_ctor
    \/ AddStep(PatInputs, Descs, MaxAdds)
    \/ PrepStep

Spec == Init /\ [][Next]_vars

(* The search path, over a registry of non-empty patterns. *)
SearchPats == {<<65>>, <<46>>}

NextSearch ==
    \/ rxp_ctor
    \/ AddStep(SearchPats, Descs, MaxSearchAdds)
    \/ PrepStep
    \/ SubmitStep(MaxSearchJobs)
    \/ RespondStep
    \/ CompleteStep

SpecSearch == Init /\ [][NextSearch]_vars

(* The job counter over the process lifetime: searches on any instance,    *)
(* with the rxp_init counter reset run at any point between them.          *)
NextJobs ==
    \/ rxp_ctor
    \/ rxp_init
    \/ SubmitStep(MaxJobs)
    \/ RespondStep
    \/ CompleteStep

SpecJobs == Init /\ [][NextJobs]_vars

(* The same, with a device that answers every job it holds and a scanning  *)
(* thread that keeps running: the poll loop sees a queued response.        *)
SpecJobsFair == SpecJobs /\ WF_vars(RespondStep) /\ WF_vars(CompleteStep)

(* Start-up: the registry is filled, then rxp_setup runs. *)
NextSetup ==
    \/ rxp_ctor
    \/ AddStep(PatInputs, Descs, MaxSearchAdds)
    \/ \E rc \in SetupRcs : rxp_setup(rc)

SpecSetup == Init /\ [][NextSetup]_vars

(* The rule identifiers issued over a long run. *)
SpecIds == Init /\ [][AddPatternIds]_vars

(* The life of the instances: they are constructed, filled, finalized and  *)
(* destroyed, and the rule file is written at any point.                   *)
SetupOk == [build |-> 0, eal |-> 0, port |-> 0, init |-> 0, program |-> 0, enable |-> 0]

NextLife ==
    \/ rxp_ctor
    \/ AddStep(SearchPats, Descs, MaxSearchAdds)
    \/ PrepStep
    \/ DtorStep
    \/ rxp_setup(SetupOk)

SpecLife == Init /\ [][NextLife]_vars

(* rxp_escape_pattern on its own, over the byte sequences built from 'A',  *)
(* backslash, 'x', 'a', newline and 0xaa.                                  *)
EscBytes == {65, 92, 120, 97, 10, 170}

EscInputs == SeqsUpTo(EscBytes, MaxEscLen)

InitEscape ==
    /\ instances = <<>>
    /\ duplicates = 0
    /\ jobs_submitted = 0
    /\ match_limit = 0
    /\ patterns = 0
    /\ max_pattern_len = 0
    /\ proc = "running"
    /\ session = "Uninitialized"
    /\ search = [pc |-> "idle"]
    /\ dev = [jobs |-> <<>>, resp |-> <<>>]
    /\ last \in {[op |-> "escape:input", pat |-> pat] : pat \in EscInputs}
    /\ hist = [ruleMax |-> 0, jobMax |-> 0, prepped |-> {}]

EscapeStep ==
    /\ last.op = "escape:input"
    /\ last' = [op |-> "rxp_escape_pattern", pat |-> last.pat,
                out |-> rxp_escape_pattern(last.pat)]
    /\ UNCHANGED <<instances, duplicates, jobs_submitted, match_limit, patterns,
                   max_pattern_len, proc, session, search, dev, hist>>

SpecEscape == InitEscape /\ [][EscapeStep]_vars

----------------------------------------------------------------------------
(* Properties. *)

(* The UserCtx a call with this handle records. *)
FreshCtx(user) == [user |-> user, user_tree |-> 0, user_list |-> 0]

(* The escaped text of pat is held by Pattern k of instance i. *)
HoldsText(i, k, pat) ==
    /\ Len(pat) > 0
    /\ instances[i].pats[k].pat # <<>>
    /\ instances[i].pats[k].pat = rxp_escape_pattern(pat)

(* C1: an add_pattern whose escaped text equals that of a Pattern the      *)
(* instance already holds appends exactly one RuleContext carrying the     *)
(* user handle to the end of that Pattern's contexts and changes nothing   *)
(* else in any instance, adds one to duplicates, leaves the rule-id        *)
(* counter and get_pattern_count() as they were, and returns 0.            *)
C1_DuplicateAdd ==
    [][\A i \in 1..Len(instances), pat \in PatInputs, d \in Descs, user \in Users :
         \A k \in 1..Len(instances[i].pats) :
            (add_pattern(i, pat, d, user) /\ HoldsText(i, k, pat))
            => /\ instances' =
                    [instances EXCEPT ![i].pats[k].userctx = Append(@, FreshCtx(user))]
               /\ duplicates' = duplicates + 1
               /\ patterns' = patterns
               /\ get_pattern_count(instances'[i]) = get_pattern_count(instances[i])
               /\ last'.returned /\ last'.ret = 0]_vars

(* C1 witness: a duplicate was added to the second Pattern of an instance, *)
(* after a context with another handle.                                    *)
C1_Witness ==
    /\ last.op = "add_pattern" /\ last.returned
    /\ duplicates = 1
    /\ \E i \in 1..Len(instances) :
          /\ Len(instances[i].pats) = 2
          /\ Len(instances[i].pats[2].userctx) = 2
          /\ instances[i].pats[2].userctx[1].user # instances[i].pats[2].userctx[2].user

(* C3: add_pattern with a zero-length pattern signals failure and adds     *)
(* nothing: the instances (pattern sequences, lookup tables, RuleContexts) *)
(* and the global counters are unchanged.                                  *)
C3_EmptyPatternRejected ==
    [][\A i \in 1..Len(instances), d \in Descs, user \in Users :
         add_pattern(i, <<>>, d, user)
         => /\ last'.returned /\ last'.ret # 0
            /\ UNCHANGED <<instances, patterns, duplicates, max_pattern_len>>]_vars

(* The agent calls of a user_ctor run handed the slots of UserCtx j of     *)
(* Pattern k, with this function and key.                                  *)
HookCount(hooks, k, j, fn, key) ==
    Cardinality({n \in 1..Len(hooks) :
                    /\ hooks[n].p = k /\ hooks[n].c = j
                    /\ hooks[n].fn = fn /\ hooks[n].key = key})

(* The per-handle requests of one prep_patterns run: a negate list for     *)
(* each RuleContext with a non-null handle of a negated Pattern, a match   *)
(* tree for each one of any other Pattern, and never the other one.        *)
KeyedRequestsRight(pats, hooks) ==
    \A k \in 1..Len(pats) : \A j \in 1..Len(pats[k].userctx) :
        LET u == pats[k].userctx[j].user
        IN  u # NULL =>
               /\ HookCount(hooks, k, j, "negate_list", u) = (IF pats[k].negate THEN 1 ELSE 0)
               /\ HookCount(hooks, k, j, "build_tree", u) = (IF pats[k].negate THEN 0 ELSE 1)

(* The build_tree calls keyed by null of one run, for Pattern k. *)
NullKeyedBuilds(pats, hooks, k) ==
    Cardinality({n \in 1..Len(hooks) :
                    hooks[n].p = k /\ hooks[n].fn = "build_tree" /\ hooks[n].key = NULL})

(* C9 as stated: after prep_patterns the per-handle requests are as above  *)
(* and build_tree keyed by null has been called exactly once per Pattern,  *)
(* however many RuleContexts the Pattern holds.                            *)
C9_OncePerPattern ==
    [][\A i \in 1..Len(instances) :
         prep_patterns(i)
         => /\ KeyedRequestsRight(instances[i].pats, last'.hooks)
            /\ \A k \in 1..Len(instances[i].pats) :
                  NullKeyedBuilds(instances[i].pats, last'.hooks, k) = 1]_vars

(* C9 amended: each prep_patterns run makes the per-handle requests as     *)
(* above and calls build_tree keyed by null exactly once per RuleContext,  *)
(* on that context's tree slot.                                            *)
C9_OncePerContext ==
    [][\A i \in 1..Len(instances) :
         prep_patterns(i)
         => /\ KeyedRequestsRight(instances[i].pats, last'.hooks)
            /\ \A k \in 1..Len(instances[i].pats) :
                  /\ NullKeyedBuilds(instances[i].pats, last'.hooks, k)
                        = Len(instances[i].pats[k].userctx)
                  /\ \A j \in 1..Len(instances[i].pats[k].userctx) :
                        HookCount(last'.hooks, k, j, "build_tree", NULL) = 1]_vars

(* C9 witness: prep_patterns has run over an instance holding a Pattern    *)
(* with two RuleContexts and a Pattern with one, negated and not, with     *)
(* null and non-null handles.                                              *)
C9_Witness ==
    /\ last.op = "prep_patterns"
    /\ \E i \in 1..Len(instances) :
          /\ Len(instances[i].pats) = 2
          /\ \E k \in 1..2 : Len(instances[i].pats[k].userctx) = 2
          /\ \E k \in 1..2 : instances[i].pats[k].negate
          /\ \E k \in 1..2 : ~instances[i].pats[k].negate
          /\ \E k \in 1..2 : \E j \in 1..Len(instances[i].pats[k].userctx) :
                instances[i].pats[k].userctx[j].user_list # NULL
          /\ Len(last.hooks) = 5

(* C2 as stated: every newly created Pattern stores a rule identifier      *)
(* strictly greater than the identifier stored in every Pattern created    *)
(* before it, so no two Patterns ever hold the same one.                   *)
C2_RuleIdsIncrease ==
    [][last'.op = "add_pattern:new" => last'.ruleid > hist.ruleMax]_vars

(* The response names only rule identifiers of Patterns of the instance. *)
AllRegistered(I, r) ==
    \A n \in 1..r.match_count :
        \E k \in 1..Len(I.pats) : I.pats[k].ruleid = r.match_data[n].rule_id

(* The Pattern of the instance that holds the rule identifier. *)
Owner(I, id) == I.pats[CHOOSE k \in 1..Len(I.pats) : I.pats[k].ruleid = id]

(* One callback invocation per RuleContext of the owning Pattern, in       *)
(* insertion order, for the entries from n on in response order.           *)
RECURSIVE ExpectedCalls(_, _, _, _)
ExpectedCalls(I, r, pv, n) ==
    IF n > r.match_count THEN <<>>
    ELSE LET e == r.match_data[n]
             ctxs == Owner(I, e.rule_id).userctx
         IN  [j \in 1..Len(ctxs) |->
                 [user |-> ctxs[j].user, tree |-> ctxs[j].user_tree,
                  to |-> e.start_ptr + e.length, pv |-> pv, list |-> ctxs[j].user_list]]
             \o ExpectedCalls(I, r, pv, n + 1)

(* C4: a search whose decoded response names only rule identifiers         *)
(* registered in the searching instance invokes the callback, for each     *)
(* match entry in response order, once per RuleContext of the owning       *)
(* Pattern in insertion order, with that context's handle, match tree and  *)
(* negate list, the caller's opaque state and start + length as the end    *)
(* offset; whatever the callbacks return, no invocation is skipped or      *)
(* added, and the search returns.                                          *)
C4_CallbackSequence ==
    [][\A stop \in 0..MaxStop :
         (SearchComplete(stop) /\ AllRegistered(instances[search.inst], Head(dev.resp)))
         => /\ last'.returned
            /\ last'.calls =
                  ExpectedCalls(instances[search.inst], Head(dev.resp), search.pv, 1)]_vars

(* C4 witness: a search has returned after four invocations, the two       *)
(* contexts of one Pattern for each of two entries, trees and lists built. *)
C4_Witness ==
    /\ last.op = "rxp_search" /\ last.returned
    /\ Len(last.calls) = 4
    /\ last.calls[1].user # last.calls[2].user
    /\ last.calls[1].to # last.calls[3].to
    /\ \E n \in 1..4 : last.calls[n].list # NULL

(* C5 as stated: a match entry whose rule identifier was never added to    *)
(* the searching instance makes the search log a diagnostic and abort: no  *)
(* callback is invoked for that entry or after it, and the search does not *)
(* return success.                                                         *)
C5_UnresolvedIsSignalled ==
    [][\A stop \in 0..MaxStop :
         (SearchComplete(stop) /\ ~AllRegistered(instances[search.inst], Head(dev.resp)))
         => /\ last'.diagnostics >= 1
            /\ ~(last'.returned /\ last'.ret = 0)]_vars

(* C6 as stated: for every decoded response, match_limit grows by exactly  *)
(* one when detected_match_count > match_count and is unchanged otherwise, *)
(* and all match_count entries are dispatched.                             *)
C6_MatchLimitCounted ==
    [][\A stop \in 0..MaxStop :
         SearchComplete(stop)
         => LET r == Head(dev.resp)
            IN  /\ match_limit' = match_limit
                     + (IF r.detected_match_count > r.match_count THEN 1 ELSE 0)
                /\ AllRegistered(instances[search.inst], r)
                     => last'.calls =
                          ExpectedCalls(instances[search.inst], r, search.pv, 1)]_vars

(* C7: the job submitted for a buffer of length n has length               *)
(* min(n, RXP_MAX_JOB_LENGTH), one truncation warning is logged when       *)
(* n > RXP_MAX_JOB_LENGTH and none otherwise, the job is queued on the     *)
(* device, and the search then awaits its response and dispatches the      *)
(* matches as any search does, the warning count unchanged.                *)
C7_Truncation ==
    [][/\ \A i \in 1..Len(instances), n \in BufLens, pv \in PVs :
            SearchSubmit(i, n, pv)
            => /\ search'.job.length = Min(n, RXP_MAX_JOB_LENGTH)
               /\ search'.warnings = (IF n > RXP_MAX_JOB_LENGTH THEN 1 ELSE 0)
               /\ search'.pc = "polling"
               /\ dev'.jobs = Append(dev.jobs, search'.job)
       /\ \A stop \in 0..MaxStop :
            (SearchComplete(stop) /\ AllRegistered(instances[search.inst], Head(dev.resp)))
            => /\ Head(dev.resp).job_id = search.job.job_id
               /\ last'.returned
               /\ last'.warnings = search.warnings
               /\ last'.calls =
                     ExpectedCalls(instances[search.inst], Head(dev.resp), search.pv, 1)]_vars

(* C7 witness: a truncated search has returned after dispatching matches. *)
C7_Witness ==
    /\ last.op = "rxp_search" /\ last.returned
    /\ last.warnings = 1
    /\ Len(last.calls) >= 2

(* C8 as stated: every job carries a non-zero identifier strictly greater  *)
(* than that of every job submitted before it, and jobs_submitted grows by *)
(* exactly one per search call.                                            *)
C8_JobIdsIncrease ==
    [][\A i \in 1..Len(instances), n \in BufLens, pv \in PVs :
         SearchSubmit(i, n, pv)
         => /\ search'.job.job_id # 0
            /\ search'.job.job_id > hist.jobMax
            /\ jobs_submitted' = jobs_submitted + 1]_vars

(* The calls of a setup run made to this step. *)
StepsTo(steps, call) == {n \in 1..Len(steps) : steps[n].call = call}

(* C10 as stated: when build_rule_file returns non-zero, rxp_setup         *)
(* performs neither program_rule_file nor rxp_enable.                      *)
C10_NoProgrammingAfterFailedBuild ==
    (last.op = "rxp_setup" /\ \E n \in StepsTo(last.steps, "build_rule_file") :
                                  last.steps[n].rc # 0)
    => /\ StepsTo(last.steps, "program_rule_file") = {}
       /\ StepsTo(last.steps, "rxp_enable") = {}

(* The steps of a setup run that reported failure, among these calls. *)
FailedSteps(steps, calls) ==
    {n \in 1..Len(steps) :
        /\ steps[n].call \in calls
        /\ IF steps[n].call = "rte_eal_init" THEN steps[n].rc < 0 ELSE steps[n].rc # 0}

(* The steps of the device session, in order. *)
SessionCalls == {"rte_eal_init", "rxp_port_init", "rxp_init", "program_rule_file", "rxp_enable"}

(* C11 as stated: a failure of EAL, port or device initialisation, of rule *)
(* programming or of enable terminates the process and is the last step    *)
(* of the run, so a setup run that returns has had every one of those      *)
(* steps succeed and leaves the session Enabled.                           *)
C11_SessionStepsFatal ==
    last.op = "rxp_setup" =>
        /\ \A n \in FailedSteps(last.steps, SessionCalls) :
              n = Len(last.steps) /\ proc # "running"
        /\ (last.returned /\ session = "Enabled")
              => FailedSteps(last.steps, SessionCalls) = {}

(* The rule file the claim describes: a header line, then one stanza per   *)
(* instance in creation order, headed by the instance's own identifier and *)
(* followed by one line per Pattern in insertion order.                    *)
ExpectedStanza(I) ==
    <<[kind |-> "subset_id", id |-> I.instance_id]>>
    \o [k \in 1..Len(I.pats) |->
           [kind |-> "rule", ruleid |-> I.pats[k].ruleid, text |-> I.pats[k].pat[1]]]

ExpectedRuleFile(insts) ==
    <<[kind |-> "header"]>>
    \o FlatFrom([n \in 1..Len(insts) |-> ExpectedStanza(insts[n])], 1)

(* C12 as stated: after any constructions and add_pattern calls,           *)
(* write_rule_file emits one stanza per instance in creation order, headed *)
(* by that instance's own instance_id and followed by one                  *)
(* "<ruleid>, <escaped text>" line per Pattern in insertion order.         *)
C12_RuleFileStanzas ==
    last.op = "rxp_setup" =>
        /\ "file" \in DOMAIN last
        /\ last.file = ExpectedRuleFile(instances)

(* Within each instance no two Patterns hold equal escaped text. *)
UniqueTexts(insts) ==
    \A i \in 1..Len(insts) : \A k, j \in 1..Len(insts[i].pats) :
        insts[i].pats[k].pat = insts[i].pats[j].pat => k = j

(* C13: an add_pattern whose escaped text is held by a Pattern of the      *)
(* instance is a duplicate whatever its descriptor says: no Pattern is     *)
(* added, duplicates grows by one, and the Pattern keeps the rule          *)
(* identifier, no_case and negate of its first insertion; in every state   *)
(* no two Patterns of one instance hold equal escaped text.                *)
C13_DedupOnTextOnly ==
    [][/\ \A i \in 1..Len(instances), pat \in PatInputs, d \in Descs, user \in Users :
            \A k \in 1..Len(instances[i].pats) :
               (add_pattern(i, pat, d, user) /\ HoldsText(i, k, pat))
               => /\ Len(instances'[i].pats) = Len(instances[i].pats)
                  /\ duplicates' = duplicates + 1
                  /\ patterns' = patterns
                  /\ instances'[i].pats[k].ruleid = instances[i].pats[k].ruleid
                  /\ instances'[i].pats[k].no_case = instances[i].pats[k].no_case
                  /\ instances'[i].pats[k].negate = instances[i].pats[k].negate
       /\ UniqueTexts(instances')]_vars

(* C13 witness: a Pattern holds two contexts, the second added by a call   *)
(* whose descriptor differs from the Pattern's in both flags.              *)
C13_Witness ==
    /\ last.op = "add_pattern" /\ last.returned
    /\ duplicates = 1
    /\ \E i \in 1..Len(instances) : \E k \in 1..Len(instances[i].pats) :
          /\ Len(instances[i].pats[k].userctx) = 2
          /\ instances[i].pats[k].no_case # last.desc.no_case
          /\ instances[i].pats[k].negate # last.desc.negated

(* C14 as stated: a prep_patterns call on an instance that prep_patterns   *)
(* has already run on, with no teardown in between, invokes no build hook  *)
(* of the host agent.                                                      *)
C14_SecondPrepBuildsNothing ==
    [][\A i \in 1..Len(instances) :
         (prep_patterns(i) /\ i \in hist.prepped) => last'.hooks = <<>>]_vars

(* The free calls of a destruction made for UserCtx j of Pattern k with    *)
(* this function.                                                          *)
FreeCount(frees, k, j, fn) ==
    Cardinality({n \in 1..Len(frees) :
                    frees[n].p = k /\ frees[n].c = j /\ frees[n].fn = fn})

(* Each handle, negate list and match tree goes to its free hook exactly   *)
(* once when it is non-null and never when it is null.                     *)
FreesGuarded(pats, frees) ==
    \A k \in 1..Len(pats) : \A j \in 1..Len(pats[k].userctx) :
        LET c == pats[k].userctx[j]
        IN  /\ FreeCount(frees, k, j, "user_free") = (IF c.user # NULL THEN 1 ELSE 0)
            /\ FreeCount(frees, k, j, "list_free") = (IF c.user_list # NULL THEN 1 ELSE 0)
            /\ FreeCount(frees, k, j, "tree_free") = (IF c.user_tree # NULL THEN 1 ELSE 0)

(* C15 as stated: destroying an instance hands every non-null handle,      *)
(* negate list and match tree to its free hook exactly once and no null    *)
(* one ever, and releases every Pattern of the instance together with its  *)
(* escaped text.                                                           *)
C15_DestroyReleasesAll ==
    [][\A i \in 1..Len(instances) :
         rxp_dtor(i)
         => /\ FreesGuarded(instances[i].pats, last'.frees)
            /\ last'.deleted = 1..Len(instances[i].pats)]_vars

(* C16 as stated: while the response queue is empty a search call neither  *)
(* dispatches a callback nor returns, and with a device that answers every *)
(* enqueued job every search call returns.                                 *)
C16_SearchAwaitsAndReturns ==
    /\ [][(search.pc = "polling" /\ dev.resp = <<>>)
            => (search'.pc = "polling" /\ last' = last)]_vars
    /\ (search.pc = "polling") ~> (search.pc = "idle")

(* C17 as stated: at most one job is in flight at any time; the response a *)
(* search call decodes is the only one queued and is the response to the   *)
(* job that call submitted; the call releases it after dispatching and     *)
(* returns, leaving no response queued.                                    *)
C17_OneJobInFlight ==
    /\ [](Len(dev.jobs) + Len(dev.resp) <= 1)
    /\ [][\A stop \in 0..MaxStop :
            SearchComplete(stop)
            => /\ Len(dev.resp) = 1 /\ dev.jobs = <<>>
               /\ Head(dev.resp).job_id = search.job.job_id
               /\ dev'.resp = <<>>
               /\ search'.pc = "idle"]_vars

(* The lookup table of the instance holds exactly the rule identifiers of  *)
(* its Patterns, each mapped to the Pattern that holds it.                 *)
TableMatchesPatterns(I) ==
    /\ DOMAIN I.ruleidtbl = {I.pats[k].ruleid : k \in 1..Len(I.pats)}
    /\ \A id \in DOMAIN I.ruleidtbl :
          /\ I.ruleidtbl[id] \in 1..Len(I.pats)
          /\ I.pats[I.ruleidtbl[id]].ruleid = id

(* C18 as stated: in every reachable state the lookup table of every       *)
(* instance matches its pattern sequence, and a search, whatever rule      *)
(* identifiers its response carries, changes no table entry and no         *)
(* Pattern.                                                                *)
C18_TableMatchesPatterns ==
    /\ [](\A i \in 1..Len(instances) : TableMatchesPatterns(instances[i]))
    /\ [][\A stop \in 0..MaxStop : SearchComplete(stop) => instances' = instances]_vars

(* C19 as stated: every entry of the instance list refers to an instance   *)
(* that has not been destroyed, and the identifiers of the live instances  *)
(* are pairwise distinct.                                                  *)
C19_InstanceListLive ==
    /\ \A i \in 1..Len(instances) : instances[i].live
    /\ \A i, j \in Live : instances[i].instance_id = instances[j].instance_id => i = j

(* The text the contract describes for a byte sequence: an ASCII letter or *)
(* digit stands for itself, any other byte is written as a backslash, an   *)
(* 'x' and its two lower-case hexadecimal digits.                          *)
HexDigits == <<48, 49, 50, 51, 52, 53, 54, 55, 56, 57, 97, 98, 99, 100, 101, 102>>

LetterOrDigit(c) == c \in (48..57) \cup (65..90) \cup (97..122)

RECURSIVE ContractText(_, _)
ContractText(pat, i) ==
    IF i > Len(pat) THEN <<>>
    ELSE (IF LetterOrDigit(pat[i]) THEN <<pat[i]>>
          ELSE <<92, 120, HexDigits[(pat[i] \div 16) + 1], HexDigits[(pat[i] % 16) + 1]>>)
         \o ContractText(pat, i + 1)

(* C20: for a non-empty byte sequence rxp_escape_pattern gives the text of *)
(* the contract, and no other non-empty byte sequence gives the same text, *)
(* so that the comparison add_pattern makes finds a Pattern holding the    *)
(* text of b equal to it exactly when b is the same byte sequence.         *)
C20_EscapeInjective ==
    (last.op = "rxp_escape_pattern" /\ Len(last.pat) > 0)
    => /\ last.out = <<ContractText(last.pat, 1)>>
       /\ \A b \in EscInputs :
             Len(b) > 0 =>
                /\ (rxp_escape_pattern(b) = last.out) <=> (b = last.pat)
                /\ ScanMatches(<<[pat |-> rxp_escape_pattern(b)]>>, last.out, 1)
                      <=> (b = last.pat)

(* C20 witness: the bytes backslash, 'x', 'a' have been escaped, to the    *)
(* six characters \x5cxa.                                                  *)
C20_Witness ==
    /\ last.op = "rxp_escape_pattern"
    /\ last.pat = <<92, 120, 97>>
    /\ last.out = <<<<92, 120, 53, 99, 120, 97>>>>

====
